---- MODULE Spec2Model ----
(***************************************************************************)
(* The batching queue of src/real-time-sync.js (class SyncQueue), its      *)
(* retry chain, the ledger write call and the SIGINT handler, as a state   *)
(* machine.  Items are identified by the order in which add() received     *)
(* them: item i is the i-th item ever passed to add().                     *)
(*                                                                         *)
(* JavaScript runs one callback at a time.  Every action below is one      *)
(* callback run to its next suspension on a timer or on the ledger write   *)
(* call: awaits that resolve without I/O (an early return of processBatch, *)
(* the drop branch of retryBatch) continue in the same action.             *)
(***************************************************************************)
EXTENDS Integers, Sequences, FiniteSets, TLC

\* Program constants
BATCH_TIMEOUT == 5000
MAX_RETRIES == 3
RETRY_DELAY == 1000

\* Bounds of the model.
\* The code sets BATCH_SIZE to 10.  The queue only compares lengths with it and
\* cuts batches of that length, so the model is checked with a smaller threshold;
\* every formula below is stated in terms of BATCH_SIZE, not of its value.
BATCH_SIZE == 3
\* add() is called at most MaxItems times
MaxItems == 5
\* at most MaxFailures ledger write calls fail
MaxFailures == 4
\* at most MaxSignals SIGINT signals are delivered
MaxSignals == 1
\* at most MaxBadNotes notifications make the handler throw
MaxBadNotes == 2
\* setupDatabaseTriggers is called at most MaxRuns times
MaxRuns == 2
\* Longest list of entries given to toAttributes on its own
MaxEntries == 3

VARIABLES
    queue,        \* this.queue: the pending items, oldest first
    processing,   \* this.processing
    batchTimer,   \* this.batchTimer and the timeout it refers to
    followUps,    \* the delays of the pending setTimeout(() => this.processBatch(), 100)
                  \* callbacks, in the order in which they were set
    flights,      \* the processBatch() activations suspended in a write or a backoff
    added,        \* number of add() calls so far
    taken,        \* taken[i]: how many times item i was spliced out of the queue
    writes,       \* writes[i]: how many ledger write calls carried item i
    written,      \* items of batches whose write call was acknowledged in full
    dropped,      \* items of batches dropped after retry exhaustion
    failures,     \* number of failed write calls so far
    lastAck,      \* how the most recent ledger write call returned
    sigCount,     \* SIGINT handlers started so far
    sigEnding,    \* SIGINT handlers suspended in `await umami.end()`
    sigSnap,      \* this.queue as the first SIGINT handler found it
    sigBusy,      \* this.processing as the first SIGINT handler found it
    poolEnded,    \* umami.end() has completed
    exited,       \* process.exit() has run
    lastNote,     \* what the most recent notification handler run did
    errorsLogged, \* "Error processing notification" lines logged so far
    lastErrors,   \* the console.error lines of the most recent return of a write call
    note,         \* a notification given to the normalizer: channel and decoded row
    item,         \* the item made from it, as passed to syncQueue.add()
    entity,       \* the entity syncBatchToArkiv builds for the item
    entryList,    \* a list of [key, value] entries given to toAttributes
    attributes,   \* the annotations toAttributes returns for it
    startPc,      \* where main() is
    exitCode,     \* the status process.exit() was called with
    dbObjects,    \* the notify functions and insert triggers in the database
    clientsOut,   \* pool clients checked out by setupDatabaseTriggers, not yet released
    runs          \* calls of setupDatabaseTriggers so far

vars == << queue, processing, batchTimer, followUps, flights, added, taken, writes,
           written, dropped, failures, lastAck, sigCount, sigEnding, sigSnap,
           sigBusy, poolEnded, exited, lastNote, errorsLogged, lastErrors, note, item, entity,
           entryList, attributes, startPc, exitCode, dbObjects, clientsOut, runs >>

\* The variables of the normalizer and the sink's entity construction
mapVars == << note, item, entity, entryList, attributes >>

\* The variables of main() and setupDatabaseTriggers()
startVars == << startPc, exitCode, dbObjects, clientsOut, runs >>

Items == 1 .. MaxItems

Min(a, b) == IF a < b THEN a ELSE b

Range(s) == { s[k] : k \in 1 .. Len(s) }

RECURSIVE Pow(_, _)
Pow(b, n) == IF n = 0 THEN 1 ELSE b * Pow(b, n - 1)

----------------------------------------------------------------------------
\* Timers

\* set: the field holds a Timeout; live: the timeout is pending; by: the add()
\* call whose setTimeout call made the Timeout, which tells the Timeout objects
\* of the batch timer apart
NoTimer == [set |-> FALSE, live |-> FALSE, delay |-> 0, by |-> 0]

setTimeout(delay) == [set |-> TRUE, live |-> TRUE, delay |-> delay, by |-> 0]

\* Mutant: the timeout is cleared and the field is left as it is
clearBatchTimer_KeepField(t) == [t EXCEPT !.live = FALSE]

\* clearBatchTimer(): clears the timeout and the field when the field is set
clearBatchTimer(t) == IF t.set THEN NoTimer ELSE t

----------------------------------------------------------------------------
\* SyncQueue.add: the conditions

\* Mutant: the timer is started only when one is already set
ShouldStartTimer_Inverted(t, p) == t.set /\ ~p

\* Mutant: `this.processing` is not looked at
ShouldStartTimer_AlsoBusy(t, p) == ~t.set

\* Mutant: every add() on an idle queue starts the timer anew
ShouldStartTimer_Restart(t, p) == ~p

\* `!this.batchTimer && !this.processing`
ShouldStartTimer(t, p) == ~t.set /\ ~p

\* Mutant: `>` for `>=`
BatchFull_Strict(q) == Len(q) > BATCH_SIZE

\* `this.queue.length >= BATCH_SIZE`
BatchFull(q) == Len(q) >= BATCH_SIZE

----------------------------------------------------------------------------
\* SyncQueue.processBatch

\* Mutant: the `this.processing` guard is missing
CanProcess_NoGuard(p, q) == Len(q) # 0

\* Mutant: the empty-queue guard is missing
CanProcess_AllowEmpty(p, q) == ~p

\* Mutant: only a full batch is processed
CanProcess_OnlyFull(p, q) == ~p /\ Len(q) >= BATCH_SIZE

\* the negation of `this.processing || this.queue.length === 0`
CanProcess(p, q) == ~(p \/ Len(q) = 0)

\* Mutant: the batch is cut from the back of the queue
SpliceBatch_Tail(q) == SubSeq(q, Len(q) - Min(Len(q), BATCH_SIZE) + 1, Len(q))

\* Mutant: the batch is everything that is pending
SpliceBatch_Whole(q) == q

\* the value of `this.queue.splice(0, BATCH_SIZE)`
SpliceBatch(q) == SubSeq(q, 1, Min(Len(q), BATCH_SIZE))

\* Mutant: slice() for splice(), the batch stays in the queue
SpliceRest_Slice(q) == q

\* Mutant: the queue is emptied
SpliceRest_Clear(q) == << >>

\* this.queue after `this.queue.splice(0, BATCH_SIZE)`
SpliceRest(q) == SubSeq(q, Min(Len(q), BATCH_SIZE) + 1, Len(q))

----------------------------------------------------------------------------
\* JavaScript values of the rows, items and annotations.  t is the type; s holds
\* the text of a string or a boolean, n the value of a number.

Str(x) == [t |-> "str", s |-> x, n |-> 0]
Num(k) == [t |-> "num", s |-> "", n |-> k]
Bool(x) == [t |-> "bool", s |-> x, n |-> 0]
Null == [t |-> "null", s |-> "", n |-> 0]
Undefined == [t |-> "undefined", s |-> "", n |-> 0]

\* `value === undefined || value === null`
IsNullish(v) == v.t \in {"null", "undefined"}

\* `!value`: undefined, null, the empty string, 0 and false
IsFalsy(v) ==
    \/ IsNullish(v)
    \/ v.t = "str" /\ v.s = ""
    \/ v.t = "num" /\ v.n = 0
    \/ v.t = "bool" /\ v.s = "false"

\* `a || b`
OrElse(a, b) == IF IsFalsy(a) THEN b ELSE a

\* String(value)
String(v) ==
    CASE v.t = "str" -> v
      [] v.t = "bool" -> Str(v.s)
      [] v.t = "null" -> Str("null")
      [] v.t = "undefined" -> Str("undefined")
      [] OTHER -> Str("number")

----------------------------------------------------------------------------
\* formatTimestamp

\* `new Date().toISOString()` at the time of the call
NowIso == "2026-01-01T12:00:00.000Z"

\* The timestamp texts of the model
ISO_SHORT == "2024-01-01T00:00:00Z"
ISO_MILLIS == "2024-01-01T00:00:00.000Z"
ISO_OFFSET == "2024-01-01T01:00:00+01:00"
NOT_A_DATE == "yesterday"

\* The instants they name, in seconds since the epoch
INSTANT_2024 == 1704067200
INSTANT_NOW == 1767268800

\* `new Date(value).getTime()` for a string; -1 stands for NaN.  The first
\* three texts above name the same instant.
DateParse(x) ==
    IF x \in {ISO_SHORT, ISO_MILLIS, ISO_OFFSET} THEN INSTANT_2024
    ELSE IF x = NowIso THEN INSTANT_NOW
    ELSE -1

\* Date.prototype.toISOString(): UTC, with milliseconds
ToISOString(secs) == IF secs = INSTANT_2024 THEN ISO_MILLIS ELSE NowIso

\* formatTimestamp(value), for a value that is a string, null or undefined
\* Mutant: a missing value is returned as it is
formatTimestamp_PassMissing(value) ==
    IF IsFalsy(value) THEN value
    ELSE IF DateParse(value.s) = -1 THEN Str(NowIso)
    ELSE Str(ToISOString(DateParse(value.s)))

\* formatTimestamp(value)
formatTimestamp(value) ==
    IF IsFalsy(value) THEN Str(NowIso)
    ELSE IF DateParse(value.s) = -1 THEN Str(NowIso)
    ELSE Str(ToISOString(DateParse(value.s)))

----------------------------------------------------------------------------
\* toAttributes

\* Mutant: a key that is present keeps its value
MapSet_KeepFirst(m, k, v) ==
    IF \E j \in 1 .. Len(m) : m[j].key = k THEN m
    ELSE Append(m, [key |-> k, value |-> v])

\* Map.prototype.set: a key that is present keeps its place and takes the value
MapSet(m, k, v) ==
    IF \E j \in 1 .. Len(m) : m[j].key = k
    THEN [j \in 1 .. Len(m) |-> IF m[j].key = k THEN [key |-> k, value |-> v] ELSE m[j]]
    ELSE Append(m, [key |-> k, value |-> v])

\* The body of the forEach callback for the entry << key, value >>
SetAttribute(m, e) ==
    IF IsNullish(e[1]) \/ IsNullish(e[2]) THEN m
    ELSE IF e[2].t = "num" THEN MapSet(m, e[1], e[2])
    ELSE MapSet(m, e[1], String(e[2]))

\* entries.forEach over the entries that remain, with the map m built so far
RECURSIVE AttributesFrom(_, _)
AttributesFrom(m, entries) ==
    IF entries = << >> THEN m
    ELSE AttributesFrom(SetAttribute(m, Head(entries)), Tail(entries))

\* toAttributes(entries): the values of the map in insertion order
toAttributes(entries) == AttributesFrom(<< >>, entries)

\* The value of the annotation with key k, Undefined when there is none
Attr(attrs, k) ==
    IF \E j \in 1 .. Len(attrs) : attrs[j].key = Str(k)
    THEN (CHOOSE a \in Range(attrs) : a.key = Str(k)).value
    ELSE Undefined

\* toAttributes has not been called
NoAttributes == << [key |-> Undefined, value |-> Undefined] >>

----------------------------------------------------------------------------
\* syncPageview, syncCustomEvent, syncSession

NoItem == [type |-> Undefined]

\* syncPageview(websiteEvent)
syncPageview(row) ==
    [type |-> Str("pageview"),
     website_id |-> row.website_id,
     umami_id |-> row.event_id,
     timestamp |-> formatTimestamp(row.created_at),
     data |-> [event_id |-> row.event_id, website_id |-> row.website_id,
               created_at |-> formatTimestamp(row.created_at)],
     metadata |-> << << Str("url_path"), OrElse(row.url_path, Str("")) >>,
                     << Str("hostname"), OrElse(row.hostname, Str("")) >>,
                     << Str("referrer_domain"), OrElse(row.referrer_domain, Str("")) >> >>]

\* syncCustomEvent(websiteEvent)
syncCustomEvent(row) ==
    [type |-> Str("event"),
     website_id |-> row.website_id,
     umami_id |-> row.event_id,
     timestamp |-> formatTimestamp(row.created_at),
     data |-> [event_id |-> row.event_id, website_id |-> row.website_id,
               created_at |-> formatTimestamp(row.created_at)],
     metadata |-> << << Str("event_name"), OrElse(row.event_name, Str("")) >>,
                     << Str("url_path"), OrElse(row.url_path, Str("")) >>,
                     << Str("hostname"), OrElse(row.hostname, Str("")) >> >>]

\* syncSession(session)
syncSession(row) ==
    [type |-> Str("session"),
     website_id |-> row.website_id,
     umami_id |-> row.session_id,
     timestamp |-> formatTimestamp(row.created_at),
     data |-> [session_id |-> row.session_id, website_id |-> row.website_id,
               created_at |-> formatTimestamp(row.created_at)],
     metadata |-> << << Str("country"), OrElse(row.country, Str("unknown")) >>,
                     << Str("device"), OrElse(row.device, Str("unknown")) >>,
                     << Str("browser"), OrElse(row.browser, Str("unknown")) >>,
                     << Str("os"), OrElse(row.os, Str("unknown")) >> >>]

----------------------------------------------------------------------------
\* The entities of syncBatchToArkiv and syncBatchToGolem

\* `Math.floor(Date.now() / 1000)` at the time of the write attempt
SyncTimeNow == INSTANT_NOW

\* calculateBTL(days) of the block-based variant:
\* `Math.floor(days * ((24 * 60 * 60) / 2))`, for a whole number of days
calculateBTLBlocks(days) == days * ((24 * 60 * 60) \div 2)

\* Mutant: the default value of the parameter is used
calculateBTL_Default(days) == [days |-> 1]

\* calculateBTL(days): the duration asked of ExpirationTime.fromDays
calculateBTL(days) == [days |-> days]

\* The argument of calculateBTL in the real-time pipeline
LiveExpiryDays == 30

\* Mutant: the item's timestamp is copied without formatTimestamp
TimestampAttribute_Copy(it) == it.timestamp

\* `formatTimestamp(item.timestamp)`
TimestampAttribute(it) == formatTimestamp(it.timestamp)

\* The entries given to toAttributes for an item of a batch of n items
AttributeEntries(it, n) ==
    << << Str("type"), it.type >>,
       << Str("source"), Str("umami") >>,
       << Str("website_id"), it.website_id >>,
       << Str("timestamp"), TimestampAttribute(it) >>,
       << Str("umami_id"), it.umami_id >>,
       << Str("sync_time"), Num(SyncTimeNow) >>,
       << Str("batch_size"), Num(n) >> >> \o it.metadata

\* The element of `creates` for an item of a batch of n items
EntityOf(it, n) ==
    [payload |-> it.data,
     contentType |-> "application/json",
     attributes |-> toAttributes(AttributeEntries(it, n)),
     expiresIn |-> calculateBTL(LiveExpiryDays),
     btl |-> calculateBTLBlocks(LiveExpiryDays)]

NoEntity == [contentType |-> ""]

----------------------------------------------------------------------------
\* The items of the queue and the `creates` of a write call

\* The item passed to the i-th add() call; umami_id tells the items apart
ItemOf(i) ==
    [type |-> Str("pageview"), website_id |-> Str("S1"), umami_id |-> Num(i),
     timestamp |-> Str(ISO_MILLIS), data |-> [event_id |-> Num(i)],
     metadata |-> << >>]

\* Mutant: batch_size is the configured batch size
creates_ConfiguredSize(batch) ==
    [j \in 1 .. Len(batch) |-> EntityOf(ItemOf(batch[j]), BATCH_SIZE)]

\* `batch.map(item => ({ ... }))`: the argument of the one mutateEntities call
\* of syncBatchToArkiv(batch)
creates(batch) ==
    [j \in 1 .. Len(batch) |-> EntityOf(ItemOf(batch[j]), Len(batch))]

\* Mutant: the retry takes what is pending along
RetryArgument_WithPending(b, q) == b \o q

\* The batch retryBatch passes to syncBatchToArkiv: its own parameter
RetryArgument(b, q) == b

\* A processBatch() activation at its first `await this.syncBatchToArkiv(batch)`
\* arg: the batch its latest syncBatchToArkiv call was given; firstArg: the
\* batch its first one was given
\* adder: the item whose add() call awaits the activation, 0 when none does
NewFlight(b, sig, adder) ==
    [batch |-> b, pc |-> "first", retryCount |-> 0, waits |-> << >>, calls |-> 1,
     arg |-> b, firstArg |-> b, sig |-> sig, adder |-> adder]

\* One more ledger write call carrying the items of batch b
CountWrite(w, b) == [i \in Items |-> IF i \in Range(b) THEN w[i] + 1 ELSE w[i]]

\* processBatch() called with this.queue = q and this.batchTimer = t, up to its
\* first suspension.  sig: the caller is the SIGINT handler, which awaits it.
\* adder: the caller is the add() call of that item, which awaits it (0: a timer
\* or the SIGINT handler).
processBatch(q, t, sig, adder) ==
    IF CanProcess(processing, q)
    THEN /\ processing' = TRUE
         /\ batchTimer' = clearBatchTimer(t)
         /\ queue' = SpliceRest(q)
         /\ flights' = flights \cup {NewFlight(SpliceBatch(q), sig, adder)}
         /\ taken' = CountWrite(taken, SpliceBatch(q))
         /\ writes' = CountWrite(writes, SpliceBatch(q))
    ELSE /\ queue' = q
         /\ batchTimer' = t
         /\ UNCHANGED << processing, flights, taken, writes >>

----------------------------------------------------------------------------
\* Mutant: unshift() for push()
push_Front(q, x) == << x >> \o q

\* `this.queue.push(data)`
push(q, x) == Append(q, x)

\* SyncQueue.add(data), up to its return or its suspension in
\* `await this.processBatch()`
add ==
    /\ ~exited
    /\ added < MaxItems
    /\ added' = added + 1
    /\ LET q1 == push(queue, added + 1)
           t1 == IF ShouldStartTimer(batchTimer, processing)
                 THEN [setTimeout(BATCH_TIMEOUT) EXCEPT !.by = added + 1]
                 ELSE batchTimer
       IN  IF BatchFull(q1)
           THEN processBatch(q1, clearBatchTimer(t1), FALSE, added + 1)
           ELSE /\ queue' = q1
                /\ batchTimer' = t1
                /\ UNCHANGED << processing, flights, taken, writes >>
    /\ UNCHANGED << followUps, written, dropped, failures, lastAck,
                    sigCount, sigEnding, sigSnap, sigBusy, poolEnded, exited >>
    /\ UNCHANGED << lastErrors, mapVars, startVars >>

\* add() called on the exported syncQueue, not from the notification handler
Add == add /\ UNCHANGED << lastNote, errorsLogged >>

\* The BATCH_TIMEOUT timer set by add() expires: () => this.processBatch()
BatchTimerFires ==
    /\ ~exited
    /\ batchTimer.live
    /\ processBatch(queue, [batchTimer EXCEPT !.live = FALSE], FALSE, 0)
    /\ UNCHANGED << followUps, added, written, dropped, failures,
                    lastAck, sigCount, sigEnding, sigSnap, sigBusy, poolEnded,
                    exited, lastNote, errorsLogged >>
    /\ UNCHANGED << lastErrors, mapVars, startVars >>

\* A 100 ms timer set at the end of processBatch() expires
FollowUpFires ==
    /\ ~exited
    /\ followUps # << >>
    /\ followUps' = Tail(followUps)
    /\ processBatch(queue, batchTimer, FALSE, 0)
    /\ UNCHANGED << added, written, dropped, failures, lastAck,
                    sigCount, sigEnding, sigSnap, sigBusy, poolEnded, exited,
                    lastNote, errorsLogged >>
    /\ UNCHANGED << lastErrors, mapVars, startVars >>

----------------------------------------------------------------------------
\* SyncQueue.syncBatchToArkiv and SyncQueue.retryBatch

\* Mutant: the receipt count is not compared
WriteOk_IgnoreCount(threw, acked, sent) == ~threw

\* syncBatchToArkiv returns normally: mutateEntities did not throw and
\* `createdEntities.length !== creates.length` is false
WriteOk(threw, acked, sent) == ~threw /\ acked = sent

\* Mutant: `>` for `>=`
RetriesExhausted_Strict(n) == n > MAX_RETRIES

\* `retryCount >= MAX_RETRIES`
RetriesExhausted(n) == n >= MAX_RETRIES

\* Mutant: linear backoff
BackoffDelay_Linear(n) == RETRY_DELAY * (n + 1)

\* `RETRY_DELAY * Math.pow(2, retryCount)`
BackoffDelay(n) == RETRY_DELAY * Pow(2, n)

\* How a write call of `sent` entities returned
AckKind(threw, acked, sent) ==
    IF threw THEN "error" ELSE IF acked = sent THEN "ok" ELSE "mismatch"

\* The receipt counts a write call of n entities is answered with
AckCounts(n) == {0, n - 1, n, n + 1} \cap Nat

\* Mutant: no follow-up timer is set at the end of processBatch()
Complete_NoFollowUp(f) ==
    /\ flights' = flights \ {f}
    /\ processing' = FALSE
    /\ followUps' = followUps
    /\ sigEnding' = IF f.sig THEN sigEnding + 1 ELSE sigEnding

\* The end of processBatch(): `this.processing = false` and the follow-up timer;
\* a SIGINT handler that awaited it goes on to `await umami.end()`
Complete(f) ==
    /\ flights' = flights \ {f}
    /\ processing' = FALSE
    /\ followUps' = IF Len(queue) > 0
                    THEN Append(followUps, setTimeout(100).delay)
                    ELSE followUps
    /\ sigEnding' = IF f.sig THEN sigEnding + 1 ELSE sigEnding

\* Mutant: retry exhaustion throws instead of returning, so processBatch() ends
\* before `this.processing = false`
retryBatch_Rethrows(f, n) ==
    IF RetriesExhausted(n)
    THEN /\ dropped' = dropped \cup Range(f.batch)
         /\ flights' = flights \ {f}
         /\ UNCHANGED << processing, followUps, sigEnding >>
    ELSE /\ flights' = (flights \ {f}) \cup
                {[f EXCEPT !.pc = "wait", !.retryCount = n,
                           !.waits = Append(@, BackoffDelay(n))]}
         /\ UNCHANGED << dropped, processing, followUps, sigEnding >>

\* Mutant: processBatch() does not await retryBatch(), so it clears `processing`
\* while the retry chain goes on
retryBatch_NotAwaited(f, n) ==
    IF RetriesExhausted(n)
    THEN /\ dropped' = dropped \cup Range(f.batch)
         /\ Complete(f)
    ELSE /\ flights' = (flights \ {f}) \cup
                {[f EXCEPT !.pc = "wait", !.retryCount = n,
                           !.waits = Append(@, BackoffDelay(n))]}
         /\ processing' = FALSE
         /\ UNCHANGED << dropped, followUps, sigEnding >>

\* Mutant: the drop branch does not return, the chain goes on
retryBatch_NoReturn(f, n) ==
    /\ dropped' = IF RetriesExhausted(n) THEN dropped \cup Range(f.batch) ELSE dropped
    /\ flights' = (flights \ {f}) \cup
           {[f EXCEPT !.pc = "wait", !.retryCount = n,
                      !.waits = Append(@, BackoffDelay(n))]}
    /\ UNCHANGED << processing, followUps, sigEnding >>

\* retryBatch(batch, n) up to its suspension in the backoff wait, or through its
\* drop branch and the end of processBatch()
retryBatch(f, n) ==
    IF RetriesExhausted(n)
    THEN /\ dropped' = dropped \cup Range(f.batch)
         /\ Complete(f)
    ELSE /\ flights' = (flights \ {f}) \cup
                {[f EXCEPT !.pc = "wait", !.retryCount = n,
                           !.waits = Append(@, BackoffDelay(n))]}
         /\ UNCHANGED << dropped, processing, followUps, sigEnding >>

\* error.message of a failed write call: what mutateEntities or initGolem threw,
\* or `Expected ${creates.length} receipts, got ${createdEntities.length}`
NoMessage == [text |-> "", expected |-> 0, got |-> 0]

ErrorMessage(threw, acked, sent) ==
    IF threw THEN [text |-> "thrown by the client", expected |-> 0, got |-> 0]
    ELSE [text |-> "Expected receipts, got", expected |-> sent, got |-> acked]

\* console.error of the catch clause of processBatch (attempt 0) or of
\* retryBatch(batch, attempt - 1)
FailedLine(attempt, message) ==
    [severity |-> "error",
     text |-> IF attempt = 0 THEN "Batch sync failed:" ELSE "Batch retry failed:",
     attempt |-> attempt, retries |-> 0, items |-> 0, message |-> message]

\* console.error of the drop branch of retryBatch:
\* `Batch failed after ${MAX_RETRIES} retries, dropping ${batch.length} items`
DroppedLine(batch) ==
    [severity |-> "error", text |-> "Batch failed after retries, dropping items",
     attempt |-> 0, retries |-> MAX_RETRIES, items |-> Len(batch),
     message |-> NoMessage]

\* Mutant: every failed write call logs the drop line
ErrorLines_AlwaysDropLine(f, threw, acked) ==
    IF WriteOk(threw, acked, Len(f.batch)) THEN << >>
    ELSE << FailedLine(IF f.pc = "first" THEN 0 ELSE f.retryCount + 1,
                       ErrorMessage(threw, acked, Len(f.batch))),
            DroppedLine(f.batch) >>

\* The console.error lines logged when the write call of flight f returns: none
\* when it succeeded, else the line of the catch clause and, when the retries
\* are exhausted, the line of the drop branch
ErrorLines(f, threw, acked) ==
    IF WriteOk(threw, acked, Len(f.batch)) THEN << >>
    ELSE LET n == IF f.pc = "first" THEN 0 ELSE f.retryCount + 1
             failed == FailedLine(n, ErrorMessage(threw, acked, Len(f.batch)))
         IN  IF RetriesExhausted(n) THEN << failed, DroppedLine(f.batch) >>
             ELSE << failed >>

\* The ledger write call of flight f returns: it threw, or it acknowledged
\* `acked` entities
WriteReturns(f, threw, acked) ==
    /\ ~exited
    /\ f.pc \in {"first", "retry"}
    /\ lastAck' = AckKind(threw, acked, Len(f.batch))
    /\ IF WriteOk(threw, acked, Len(f.batch))
       THEN /\ written' = written \cup Range(f.batch)
            /\ Complete(f)
            /\ UNCHANGED << dropped, failures >>
       ELSE /\ failures < MaxFailures
            /\ failures' = failures + 1
            /\ written' = written
            /\ retryBatch(f, IF f.pc = "first" THEN 0 ELSE f.retryCount + 1)
    /\ UNCHANGED << queue, batchTimer, added, taken, writes, sigCount, sigSnap,
                    sigBusy, poolEnded, exited, lastNote, errorsLogged >>
    /\ UNCHANGED << mapVars, startVars >>

\* The backoff wait of flight f ends and retryBatch makes its write call
BackoffElapses(f) ==
    /\ ~exited
    /\ f.pc = "wait"
    /\ flights' = (flights \ {f}) \cup
           {[f EXCEPT !.pc = "retry", !.calls = @ + 1,
                      !.arg = RetryArgument(f.batch, queue)]}
    /\ writes' = CountWrite(writes, f.batch)
    /\ UNCHANGED << queue, processing, batchTimer, followUps, added,
                    taken, written, dropped, failures, lastAck, sigCount, sigEnding,
                    sigSnap, sigBusy, poolEnded, exited, lastNote, errorsLogged >>
    /\ UNCHANGED << lastErrors, mapVars, startVars >>

----------------------------------------------------------------------------
\* process.on('SIGINT')

\* Mutant: the final flush is made only for a full batch
HasRemaining_Full(q) == Len(q) >= BATCH_SIZE

\* `syncQueue.queue.length > 0`
HasRemaining(q) == Len(q) > 0

\* Mutant: the handler does not await processBatch()
HandlerWaits_Never(p, q) == FALSE

\* `await syncQueue.processBatch()` suspends the handler when processBatch()
\* starts a flush; a processBatch() that returns at its guard resolves at once
HandlerWaits(p, q) == CanProcess(p, q)

\* The handler up to its suspension in `await syncQueue.processBatch()` or in
\* `await umami.end()`
Sigint ==
    /\ ~exited
    /\ sigCount < MaxSignals
    /\ sigCount' = sigCount + 1
    /\ sigSnap' = IF sigCount = 0 THEN queue ELSE sigSnap
    /\ sigBusy' = IF sigCount = 0 THEN processing ELSE sigBusy
    /\ IF HasRemaining(queue)
       THEN /\ processBatch(queue, batchTimer, TRUE, 0)
            /\ sigEnding' = IF HandlerWaits(processing, queue)
                            THEN sigEnding ELSE sigEnding + 1
       ELSE /\ sigEnding' = sigEnding + 1
            /\ UNCHANGED << queue, processing, batchTimer, flights, taken, writes >>
    /\ UNCHANGED << followUps, added, written, dropped, failures,
                    lastAck, poolEnded, exited, lastNote, errorsLogged >>
    /\ UNCHANGED << lastErrors, mapVars, startVars >>

\* `await umami.end()` resumes and `process.exit(0)` runs
Exit ==
    /\ ~exited
    /\ sigEnding > 0
    /\ poolEnded' = TRUE
    /\ exited' = TRUE
    /\ exitCode' = 0
    /\ UNCHANGED << queue, processing, batchTimer, followUps, flights, added, taken,
                    writes, written, dropped, failures, lastAck, sigCount,
                    sigEnding, sigSnap, sigBusy, lastNote, errorsLogged >>
    /\ UNCHANGED << lastErrors, mapVars, startPc, dbObjects, clientsOut, runs >>

----------------------------------------------------------------------------
\* main(), setupDatabaseTriggers() and setupDatabaseListeners()

\* process.exit() has not been called
NoExit == -1

\* The functions and triggers that setupDatabaseTriggers installs, in the order
\* of its four queries
Queries == << "notify_website_event", "website_event_notify_trigger",
             "notify_session", "session_notify_trigger" >>

DbNames == Range(Queries)

\* An object of the database is absent, present in another version, or present
\* as setupDatabaseTriggers defines it
DbStates == {"absent", "stale", "current"}

Provisioned == [o \in DbNames |-> "current"]

\* Mutant: CREATE without OR REPLACE and without the DROP ... IF EXISTS, guarded
\* by the object's absence
RunQuery_KeepExisting(db, k) ==
    IF db[Queries[k]] = "absent" THEN [db EXCEPT ![Queries[k]] = "current"] ELSE db

\* Query k succeeded: CREATE OR REPLACE FUNCTION, or DROP TRIGGER IF EXISTS and
\* CREATE TRIGGER in one statement list
RunQuery(db, k) == [db EXCEPT ![Queries[k]] = "current"]

\* `finally { client.release() }`
Released(n, threw) == n - 1

\* The position of main() while setupDatabaseTriggers awaits query k
QueryPc == << "query1", "query2", "query3", "query4" >>

\* Mutant: main() awaits setupDatabaseListeners before setupDatabaseTriggers
MainAfter_ListenFirst(stage) ==
    CASE stage = "initGolem" -> "listenConnect"
      [] stage = "setupDatabaseListeners" -> "connect"
      [] OTHER -> "running"

\* The position of main() after each of its three awaited calls
MainAfter(stage) ==
    CASE stage = "initGolem" -> "connect"
      [] stage = "setupDatabaseTriggers" -> "listenConnect"
      [] OTHER -> "running"

\* Where control goes when an awaited call of `caller` returns or throws: the
\* catch clause of main() calls process.exit(1); another caller of the
\* exported setupDatabaseTriggers gets the result
Continue(caller, stage, threw) ==
    IF caller = "main"
    THEN IF threw
         THEN startPc' = "failed" /\ exitCode' = 1
         ELSE startPc' = MainAfter(stage) /\ exitCode' = exitCode
    ELSE /\ startPc' = IF threw THEN "threw" ELSE "returned"
         /\ exitCode' = exitCode

\* client.on('notification', ...) has run
HandlerRegistered == startPc = "running"

\* initGolem() returns the client or throws (no private key, a malformed key)
InitGolem(ok) ==
    /\ startPc = "init"
    /\ Continue("main", "initGolem", ~ok)
    /\ UNCHANGED << queue, processing, batchTimer, followUps, flights, added, taken,
                    writes, written, dropped, failures, lastAck, sigCount,
                    sigEnding, sigSnap, sigBusy, poolEnded, exited, lastNote,
                    errorsLogged, lastErrors, mapVars, dbObjects, clientsOut, runs >>

\* setupDatabaseTriggers: `await umami.connect()`, outside the try statement
ProvisionConnect(caller, ok) ==
    /\ startPc = "connect"
    /\ runs < MaxRuns
    /\ runs' = runs + 1
    /\ IF ok
       THEN /\ clientsOut' = clientsOut + 1
            /\ startPc' = QueryPc[1]
            /\ exitCode' = exitCode
       ELSE /\ clientsOut' = clientsOut
            /\ Continue(caller, "setupDatabaseTriggers", TRUE)
    /\ UNCHANGED << queue, processing, batchTimer, followUps, flights, added, taken,
                    writes, written, dropped, failures, lastAck, sigCount,
                    sigEnding, sigSnap, sigBusy, poolEnded, exited, lastNote,
                    errorsLogged, lastErrors, mapVars, dbObjects >>

\* setupDatabaseTriggers: query k returns or throws; after the last query, and
\* after a query that threw, the finally clause releases the client
ProvisionQuery(caller, k, ok) ==
    /\ startPc = QueryPc[k]
    /\ dbObjects' = IF ok THEN RunQuery(dbObjects, k) ELSE dbObjects
    /\ IF ok /\ k < Len(Queries)
       THEN /\ startPc' = QueryPc[k + 1]
            /\ UNCHANGED << exitCode, clientsOut >>
       ELSE /\ clientsOut' = Released(clientsOut, ~ok)
            /\ Continue(caller, "setupDatabaseTriggers", ~ok)
    /\ UNCHANGED << queue, processing, batchTimer, followUps, flights, added, taken,
                    writes, written, dropped, failures, lastAck, sigCount,
                    sigEnding, sigSnap, sigBusy, poolEnded, exited, lastNote,
                    errorsLogged, lastErrors, mapVars, runs >>

\* setupDatabaseTriggers is called again by the code that imported it
Rerun ==
    /\ startPc \in {"returned", "threw"}
    /\ runs < MaxRuns
    /\ startPc' = "connect"
    /\ UNCHANGED << queue, processing, batchTimer, followUps, flights, added, taken,
                    writes, written, dropped, failures, lastAck, sigCount,
                    sigEnding, sigSnap, sigBusy, poolEnded, exited, lastNote,
                    errorsLogged, lastErrors, mapVars, exitCode, dbObjects, clientsOut, runs >>

\* setupDatabaseListeners: `await umami.connect()`
ListenConnect(ok) ==
    /\ startPc = "listenConnect"
    /\ IF ok
       THEN startPc' = "listen1" /\ exitCode' = exitCode
       ELSE Continue("main", "setupDatabaseListeners", TRUE)
    /\ UNCHANGED << queue, processing, batchTimer, followUps, flights, added, taken,
                    writes, written, dropped, failures, lastAck, sigCount,
                    sigEnding, sigSnap, sigBusy, poolEnded, exited, lastNote,
                    errorsLogged, lastErrors, mapVars, dbObjects, clientsOut, runs >>

\* setupDatabaseListeners: a LISTEN query returns or throws; after the second
\* one the notification handler is registered and the function returns
Listen(ok) ==
    /\ startPc \in {"listen1", "listen2"}
    /\ IF ok /\ startPc = "listen1"
       THEN startPc' = "listen2" /\ exitCode' = exitCode
       ELSE Continue("main", "setupDatabaseListeners", ~ok)
    /\ UNCHANGED << queue, processing, batchTimer, followUps, flights, added, taken,
                    writes, written, dropped, failures, lastAck, sigCount,
                    sigEnding, sigSnap, sigBusy, poolEnded, exited, lastNote,
                    errorsLogged, lastErrors, mapVars, dbObjects, clientsOut, runs >>

----------------------------------------------------------------------------
\* client.on('notification')

\* The channels of the LISTEN statements
Channels == {"website_event_insert", "session_insert"}

\* msg.channel as the handler may find it: a channel of a LISTEN query, or
\* another one
MsgChannels == Channels \cup {"other_insert"}

\* msg.payload: text that is not JSON, the JSON text `null`, or a JSON object
\* whose event_type is 1, 2 or something else
Payloads == {"garbage", "null", "type1", "type2", "type3"}

\* `JSON.parse(msg.payload)` throws
ParseThrows(p) == p = "garbage"

\* Mutant: `else` for `else if (payload.event_type === 2)`
Classify_ElseEvent(ch, p) ==
    IF ch = "website_event_insert"
    THEN IF p = "null" THEN "throw"
         ELSE IF p = "type1" THEN "pageview"
         ELSE "event"
    ELSE IF ch = "session_insert"
    THEN IF p = "null" THEN "throw" ELSE "session"
    ELSE "none"

\* The switch on msg.channel: the `type` of the item the notification is made
\* into, "none" when no branch applies, "throw" when reading a field of the
\* decoded payload throws
Classify(ch, p) ==
    IF ch = "website_event_insert"
    THEN IF p = "null" THEN "throw"
         ELSE IF p = "type1" THEN "pageview"
         ELSE IF p = "type2" THEN "event"
         ELSE "none"
    ELSE IF ch = "session_insert"
    THEN IF p = "null" THEN "throw" ELSE "session"
    ELSE "none"

\* Mutant: the handler has no try/catch, an exception ends the process
HandlerOutcome_NoCatch(r) ==
    IF r = "throw" THEN "crash" ELSE IF r = "none" THEN "ignore" ELSE "enqueue"

\* What the handler does with the result of decoding and classifying: the catch
\* clause logs whatever was thrown
HandlerOutcome(r) ==
    IF r = "throw" THEN "log" ELSE IF r = "none" THEN "ignore" ELSE "enqueue"

\* The handler runs for a notification with payload p on channel ch, up to its
\* return or its suspension in add().  An exception that escaped the handler
\* would be an unhandled rejection, which ends the process.
Notification(ch, p) ==
    LET r == IF ParseThrows(p) THEN "throw" ELSE Classify(ch, p)
        o == HandlerOutcome(r)
    IN  /\ ~exited
        /\ HandlerRegistered
        /\ CASE o = "enqueue" ->
                 /\ lastNote' = r
                 /\ errorsLogged' = errorsLogged
                 /\ add
              [] o = "log" ->
                 /\ errorsLogged < MaxBadNotes
                 /\ errorsLogged' = errorsLogged + 1
                 /\ lastNote' = "error"
                 /\ UNCHANGED << queue, processing, batchTimer, followUps, flights,
                                 added, taken, writes, written, dropped, failures,
                                 lastAck, sigCount, sigEnding, sigSnap, sigBusy,
                                 poolEnded, exited >>
                 /\ UNCHANGED << lastErrors, mapVars, startVars >>
              [] o = "ignore" ->
                 /\ lastNote' = "ignored"
                 /\ UNCHANGED << queue, processing, batchTimer, followUps, flights,
                                 added, taken, writes, written, dropped, failures,
                                 lastAck, sigCount, sigEnding, sigSnap, sigBusy,
                                 poolEnded, exited, errorsLogged >>
                 /\ UNCHANGED << lastErrors, mapVars, startVars >>
              [] OTHER ->
                 /\ exited' = TRUE
                 /\ UNCHANGED << queue, processing, batchTimer, followUps, flights,
                                 added, taken, writes, written, dropped, failures,
                                 lastAck, sigCount, sigEnding, sigSnap, sigBusy,
                                 poolEnded, lastNote, errorsLogged >>
                 /\ UNCHANGED << lastErrors, mapVars, startVars >>

----------------------------------------------------------------------------
\* The normalizer and the entity construction as functions of their input

NoNote == [channel |-> ""]

\* The rows of the model: row_to_json(NEW) of a website_event or session row;
\* the fields that are not varied hold a typical value
Rows ==
    { [event_type |-> et, website_id |-> w, event_id |-> id, session_id |-> id,
       created_at |-> c, hostname |-> h, country |-> co,
       url_path |-> Str("/"), referrer_domain |-> Undefined,
       event_name |-> Str("signup"), device |-> Str("desktop"),
       browser |-> Null, os |-> Undefined] :
        et \in {Num(1), Num(2), Num(3), Undefined},
        w \in {Str("S1"), Null, Undefined},
        id \in {Str("42"), Undefined},
        c \in {Str(ISO_OFFSET), Str(ISO_MILLIS), Str(ISO_SHORT), Str(NOT_A_DATE),
                Null, Undefined},
        h \in {Str("example.com"), Undefined},
        co \in {Str("PL"), Null} }

\* The items passed to add() on the exported syncQueue
DirectItems ==
    { [type |-> Str("pageview"), website_id |-> Str("S1"), umami_id |-> id,
       timestamp |-> ts, data |-> [event_id |-> id], metadata |-> md] :
        id \in {Str("42"), Num(42)},
        ts \in {Str(ISO_SHORT), Str(ISO_MILLIS), Undefined},
        md \in {<< >>,
                << << Str("hostname"), Str("example.com") >> >>,
                << << Str("source"), Str("import") >>, << Str("umami_id"), Null >> >>,
                << << Str("type"), Null >>, << Str("timestamp"), Str("") >>,
                   << Str("sync_time"), Str("soon") >>,
                   << Str("batch_size"), Undefined >> >>} }

\* `payload.event_type === 1`, `=== 2`, or neither
RowKind(row) ==
    IF row.event_type = Num(1) THEN "type1"
    ELSE IF row.event_type = Num(2) THEN "type2"
    ELSE "type3"

\* The handler's switch for a decoded row: the item it passes to add()
Normalize ==
    /\ note # NoNote
    /\ item = NoItem
    /\ LET k == Classify(note.channel, RowKind(note.row))
       IN  /\ k \in {"pageview", "event", "session"}
           /\ item' = CASE k = "pageview" -> syncPageview(note.row)
                         [] k = "event" -> syncCustomEvent(note.row)
                         [] OTHER -> syncSession(note.row)
    /\ UNCHANGED << queue, processing, batchTimer, followUps, flights, added, taken,
                    writes, written, dropped, failures, lastAck, sigCount,
                    sigEnding, sigSnap, sigBusy, poolEnded, exited, lastNote,
                    errorsLogged, lastErrors, note, entity, entryList, attributes, startVars >>

\* The callback of batch.map in syncBatchToArkiv, for an item of a batch of n
BuildEntity ==
    /\ item # NoItem
    /\ entity = NoEntity
    /\ \E n \in 1 .. BATCH_SIZE : entity' = EntityOf(item, n)
    /\ UNCHANGED << queue, processing, batchTimer, followUps, flights, added, taken,
                    writes, written, dropped, failures, lastAck, sigCount,
                    sigEnding, sigSnap, sigBusy, poolEnded, exited, lastNote,
                    errorsLogged, lastErrors, note, item, entryList, attributes, startVars >>

\* The keys and values of the entries toAttributes is given on its own: texts,
\* the empty text, a number, a boolean, null and undefined
EntryKeys == {Str("type"), Str("url_path"), Null, Undefined}

EntryValues == {Str("pageview"), Str(""), Num(0), Bool("false"), Null, Undefined}

EntryLists ==
    UNION { [1 .. n -> { << k, v >> : k \in EntryKeys, v \in EntryValues }] :
                n \in 0 .. MaxEntries }

\* toAttributes(entries) is called
ApplyToAttributes ==
    /\ attributes = NoAttributes
    /\ attributes' = toAttributes(entryList)
    /\ UNCHANGED << queue, processing, batchTimer, followUps, flights, added, taken,
                    writes, written, dropped, failures, lastAck, sigCount,
                    sigEnding, sigSnap, sigBusy, poolEnded, exited, lastNote,
                    errorsLogged, lastErrors, note, item, entity, entryList, startVars >>

----------------------------------------------------------------------------
\* new SyncQueue() and the module-level state of a process that has not yet
\* received anything
QueueInit ==
    /\ queue = << >>
    /\ processing = FALSE
    /\ batchTimer = NoTimer
    /\ followUps = << >>
    /\ flights = {}
    /\ added = 0
    /\ taken = [i \in Items |-> 0]
    /\ writes = [i \in Items |-> 0]
    /\ written = {}
    /\ dropped = {}
    /\ failures = 0
    /\ lastAck = "none"
    /\ sigCount = 0
    /\ sigEnding = 0
    /\ sigSnap = << >>
    /\ sigBusy = FALSE
    /\ poolEnded = FALSE
    /\ exited = FALSE
    /\ lastNote = "none"
    /\ errorsLogged = 0
    /\ lastErrors = << >>
    /\ exitCode = NoExit
    /\ clientsOut = 0

\* Nothing is being normalized
NoMapping ==
    /\ note = NoNote
    /\ item = NoItem
    /\ entity = NoEntity
    /\ entryList = << >>
    /\ attributes = NoAttributes

\* main() has completed: the triggers are installed and the handler registered
Started ==
    /\ startPc = "running"
    /\ dbObjects = Provisioned
    /\ runs = 1

Init == QueueInit /\ NoMapping /\ Started

\* A write call returns; what is logged is not looked at
WriteCallReturns ==
    \E f \in flights : \E threw \in BOOLEAN : \E acked \in AckCounts(Len(f.batch)) :
        /\ WriteReturns(f, threw, acked)
        /\ UNCHANGED lastErrors

\* A write call returns, with the console.error lines of its catch clause and
\* of the retryBatch call the clause makes
WriteCallReports ==
    \E f \in flights : \E threw \in BOOLEAN : \E acked \in AckCounts(Len(f.batch)) :
        /\ WriteReturns(f, threw, acked)
        /\ lastErrors' = ErrorLines(f, threw, acked)

BackoffTimerFires == \E f \in flights : BackoffElapses(f)

Next ==
    \/ Add
    \/ BatchTimerFires
    \/ FollowUpFires
    \/ WriteCallReturns
    \/ BackoffTimerFires
    \/ Sigint
    \/ Exit

Spec == Init /\ [][Next]_vars

\* Operation without a termination signal.  The event loop runs every callback
\* that is due: timers expire, backoff waits end and write calls return.
QuietNext ==
    \/ Add
    \/ BatchTimerFires
    \/ FollowUpFires
    \/ WriteCallReturns
    \/ BackoffTimerFires

QuietSpec ==
    /\ Init
    /\ [][QuietNext]_vars
    /\ WF_vars(BatchTimerFires)
    /\ WF_vars(FollowUpFires)
    /\ WF_vars(WriteCallReturns)
    /\ WF_vars(BackoffTimerFires)

\* Shutdown.  The event loop runs every callback that is due: write calls
\* return, backoff waits end and umami.end() resolves.
ShutdownSpec ==
    /\ Init
    /\ [][Next]_vars
    /\ WF_vars(WriteCallReturns)
    /\ WF_vars(BackoffTimerFires)
    /\ WF_vars(Exit)

Notify == \E ch \in MsgChannels : \E p \in Payloads : Notification(ch, p)

\* The listener feeding the queue, without a termination signal
ListenerNext ==
    \/ Notify
    \/ BatchTimerFires
    \/ FollowUpFires
    \/ WriteCallReturns
    \/ BackoffTimerFires

\* Operation without a termination signal, with the error lines of the sink
ReportNext ==
    \/ Add
    \/ BatchTimerFires
    \/ FollowUpFires
    \/ WriteCallReports
    \/ BackoffTimerFires

ReportSpec ==
    /\ Init
    /\ [][ReportNext]_vars
    /\ WF_vars(BatchTimerFires)
    /\ WF_vars(FollowUpFires)
    /\ WF_vars(WriteCallReports)
    /\ WF_vars(BackoffTimerFires)

ListenerSpec ==
    /\ Init
    /\ [][ListenerNext]_vars
    /\ WF_vars(BatchTimerFires)
    /\ WF_vars(FollowUpFires)
    /\ WF_vars(WriteCallReturns)
    /\ WF_vars(BackoffTimerFires)

\* The normalizer and the entity construction applied to every notification of
\* the model and to every item given to the exported queue
MappingInit ==
    /\ QueueInit
    /\ Started
    /\ entity = NoEntity
    /\ entryList = << >>
    /\ attributes = NoAttributes
    /\ \/ /\ note \in [channel : Channels, row : Rows]
          /\ item = NoItem
       \/ /\ note = NoNote
          /\ item \in DirectItems

MappingNext == Normalize \/ BuildEntity

MappingSpec == MappingInit /\ [][MappingNext]_vars

\* toAttributes applied to every list of at most MaxEntries entries
AttributesInit ==
    /\ QueueInit
    /\ Started
    /\ note = NoNote
    /\ item = NoItem
    /\ entity = NoEntity
    /\ entryList \in EntryLists
    /\ attributes = NoAttributes

AttributesNext == ApplyToAttributes

AttributesSpec == AttributesInit /\ [][AttributesNext]_vars

\* The process from the call of main() on, with a database in which the
\* functions and triggers are absent or left by another version
StartupInit ==
    /\ QueueInit
    /\ NoMapping
    /\ startPc = "init"
    /\ runs = 0
    /\ \E st \in {"absent", "stale"} : dbObjects = [o \in DbNames |-> st]

StartupStep ==
    \/ \E ok \in BOOLEAN : InitGolem(ok)
    \/ \E ok \in BOOLEAN : ProvisionConnect("main", ok)
    \/ \E k \in 1 .. Len(Queries) : \E ok \in BOOLEAN : ProvisionQuery("main", k, ok)
    \/ \E ok \in BOOLEAN : ListenConnect(ok)
    \/ \E ok \in BOOLEAN : Listen(ok)

StartupNext ==
    \/ StartupStep
    \/ Notify
    \/ BatchTimerFires
    \/ FollowUpFires
    \/ WriteCallReturns
    \/ BackoffTimerFires

StartupSpec == StartupInit /\ [][StartupNext]_vars

\* setupDatabaseTriggers called repeatedly by code that imported it, from any
\* state of the four database objects
ProvisionInit ==
    /\ QueueInit
    /\ NoMapping
    /\ startPc = "connect"
    /\ runs = 0
    /\ dbObjects \in [DbNames -> DbStates]

ProvisionNext ==
    \/ \E ok \in BOOLEAN : ProvisionConnect("direct", ok)
    \/ \E k \in 1 .. Len(Queries) : \E ok \in BOOLEAN : ProvisionQuery("direct", k, ok)
    \/ Rerun

ProvisionSpec == ProvisionInit /\ [][ProvisionNext]_vars

----------------------------------------------------------------------------
\* Vocabulary of the properties

InFlight == UNION { Range(f.batch) : f \in flights }

\* The step is an add() call
AddStep == added' = added + 1

\* The step is the expiry of the batch timer
BatchTimerStep ==
    /\ batchTimer.live
    /\ ~batchTimer'.live
    /\ added' = added
    /\ followUps' = followUps
    /\ sigCount' = sigCount

\* The step is the start of a SIGINT handler
SigintStep == sigCount' = sigCount + 1

\* The step starts exactly one flush, of batch b
StartsOneFlush(b) ==
    /\ Cardinality(flights') = Cardinality(flights) + 1
    /\ \E f \in flights' \ flights : f.batch = b /\ f.pc = "first" /\ f.calls = 1
    /\ \A i \in Range(b) : taken'[i] = 1 /\ writes'[i] = 1

----------------------------------------------------------------------------
\* C1: at most one batch is outstanding at the sink at any time (in its first
\* write call, in a backoff wait or in a retry write), and while a batch is
\* outstanding an add() only appends the item to the pending queue: it starts no
\* flush and sets no timer, whatever the pending length.
C1_SingleFlight ==
    /\ [](Cardinality(flights) <= 1)
    /\ [][(AddStep /\ flights # {}) =>
            /\ queue' = Append(queue, added')
            /\ flights' = flights
            /\ UNCHANGED << processing, batchTimer, followUps, taken, writes >>]_vars

\* A batch is outstanding in its retry chain while BATCH_SIZE items are pending
C1_Witness ==
    /\ Cardinality(flights) = 1
    /\ \E f \in flights : f.pc = "wait"
    /\ Len(queue) >= BATCH_SIZE

\* C3: on a queue with no flush in flight, the add() that makes the pending length
\* BATCH_SIZE starts exactly one flush whose batch is exactly the BATCH_SIZE
\* pending items, leaves the queue empty and leaves no batch timer; the add()
\* calls before it start no flush.  Hence BATCH_SIZE consecutive add() calls on an
\* idle queue trigger exactly one flush of exactly those items.
C3_BatchSizing ==
    [][(AddStep /\ ~processing /\ flights = {}) =>
         IF Len(queue) = BATCH_SIZE - 1
         THEN /\ StartsOneFlush(Append(queue, added'))
              /\ queue' = << >>
              /\ batchTimer' = NoTimer
              /\ processing'
         ELSE Len(queue) < BATCH_SIZE - 1 =>
              /\ flights' = flights
              /\ queue' = Append(queue, added')
              /\ batchTimer'.live
              /\ UNCHANGED << taken, writes >>]_vars

\* The first BATCH_SIZE items ever added are outstanding as one batch
C3_Witness ==
    /\ added = BATCH_SIZE
    /\ queue = << >>
    /\ batchTimer = NoTimer
    /\ \E f \in flights : f.pc = "first" /\ f.batch = [k \in 1 .. BATCH_SIZE |-> k]

\* C4: with k pending items, 1 <= k < BATCH_SIZE, and no flush in flight, the
\* expiry of the batch timer starts exactly one flush whose batch is the k pending
\* items in enqueue order, and leaves the queue empty.
C4_TimeFlush ==
    [][(BatchTimerStep /\ ~processing /\ Len(queue) \in 1 .. (BATCH_SIZE - 1)) =>
         /\ StartsOneFlush(queue)
         /\ \A a, b \in 1 .. Len(queue) : a < b => queue[a] < queue[b]
         /\ queue' = << >>
         /\ processing']_vars

\* The first k < BATCH_SIZE items ever added are outstanding as one batch, and no
\* signal was delivered: the batch timer started the flush
C4_Witness ==
    /\ sigCount = 0
    /\ added = BATCH_SIZE - 1
    /\ queue = << >>
    /\ \E f \in flights : f.pc = "first" /\ f.batch = [k \in 1 .. (BATCH_SIZE - 1) |-> k]

\* C5: a flush started by add() at the size threshold leaves no batch timer
\* pending, and every item is spliced out of the pending queue at most once and is
\* in at most one batch: pending, outstanding and finished items are disjoint.
C5_NoDoubleFlush ==
    /\ [](\A i \in Items : taken[i] <= 1)
    /\ [](\A f \in flights : \A g \in flights \ {f} : Range(f.batch) \cap Range(g.batch) = {})
    /\ [](\A f \in flights : Cardinality(Range(f.batch)) = Len(f.batch))
    /\ [](Range(queue) \cap (InFlight \cup written \cup dropped) = {})
    /\ [](Cardinality(Range(queue)) = Len(queue))
    /\ [][(AddStep /\ flights' # flights) => batchTimer' = NoTimer]_vars

\* The size threshold started a flush of the first BATCH_SIZE items while later
\* items are pending
C5_Witness ==
    /\ added > BATCH_SIZE
    /\ Len(queue) >= 1
    /\ \E f \in flights : f.batch = [k \in 1 .. BATCH_SIZE |-> k]
    /\ \A i \in 1 .. BATCH_SIZE : taken[i] = 1

\* No write call has failed and no signal has been delivered
NormalRun == failures = 0 /\ sigCount = 0

\* C2: as long as no write call has failed and no signal was delivered, no item
\* was carried by more than one write call, an item no longer pending was carried
\* by exactly one and no item is pending twice; and every item passed to add() is
\* eventually in an acknowledged batch after exactly one write call, unless a
\* write call fails first.
C2_NoLossNoDup ==
    /\ [](NormalRun =>
            \A i \in 1 .. added :
                /\ writes[i] <= 1
                /\ (i \notin Range(queue) => writes[i] = 1)
                /\ Cardinality({k \in 1 .. Len(queue) : queue[k] = i}) <= 1)
    /\ \A i \in Items :
         (added >= i) ~> ((i \in written /\ writes[i] = 1) \/ ~NormalRun)

\* Every item has been added and acknowledged after one write call each
C2_Witness ==
    /\ NormalRun
    /\ added = MaxItems
    /\ written = 1 .. MaxItems
    /\ \A i \in 1 .. MaxItems : writes[i] = 1

\* C6: a batch is never in more than 1 + MAX_RETRIES write calls; a failed write
\* call is followed by a backoff wait and a retry as long as fewer than
\* 1 + MAX_RETRIES calls were made, and the failure of call 1 + MAX_RETRIES drops
\* the batch; a dropped batch was in exactly 1 + MAX_RETRIES write calls.
C6_RetryCeiling ==
    /\ [](\A f \in flights : f.calls <= 1 + MAX_RETRIES /\ f.retryCount < MAX_RETRIES)
    /\ [](\A i \in Items : writes[i] <= 1 + MAX_RETRIES)
    /\ [](\A i \in dropped : writes[i] = 1 + MAX_RETRIES /\ i \notin written \cup InFlight)
    /\ [][failures' = failures + 1 =>
            \A f \in flights : f.pc \in {"first", "retry"} =>
                IF f.calls = 1 + MAX_RETRIES
                THEN /\ dropped' = dropped \cup Range(f.batch)
                     /\ \A g \in flights' : g.batch # f.batch
                ELSE /\ dropped' = dropped
                     /\ \E g \in flights' :
                            g.batch = f.batch /\ g.pc = "wait" /\ g.calls = f.calls]_vars

\* A batch was dropped
C6_Witness == dropped # {} /\ \A i \in dropped : writes[i] = 1 + MAX_RETRIES

\* The waits before retry 0, 1 and 2, in units of RETRY_DELAY
BackoffUnits == << 1, 2, 4 >>

\* C7: the waits of a batch are RETRY_DELAY times 1, 2, 4 in that order; the
\* first attempt is made without a wait, and the batch is in write call n + 1 only
\* when n waits have been started and all n have ended.
C7_BackoffSequence ==
    \A f \in flights :
        /\ Len(f.waits) <= Len(BackoffUnits)
        /\ \A n \in 1 .. Len(f.waits) : f.waits[n] = RETRY_DELAY * BackoffUnits[n]
        /\ f.pc = "first" => f.waits = << >> /\ f.calls = 1
        /\ f.pc = "wait" => f.calls = Len(f.waits)
        /\ f.pc = "retry" => f.calls = Len(f.waits) + 1

\* The third retry write of a batch is in progress
C7_Witness == \E f \in flights : f.pc = "retry" /\ Len(f.waits) = 3

\* The step is the return of a write call
ReturnStep == failures' # failures \/ written' # written

\* C8: a write call that returns a receipt count different from the number of
\* entities submitted has the effect of a write call that threw, on the first
\* attempt and on every retry: the batch is not added to the written items, the
\* failure is counted, and the batch enters the backoff wait of its next retry or,
\* after call 1 + MAX_RETRIES, is dropped.
C8_MismatchIsFailure ==
    [][(ReturnStep /\ lastAck' \in {"mismatch", "error"}) =>
         /\ written' = written
         /\ failures' = failures + 1
         /\ \A f \in flights : f.pc \in {"first", "retry"} =>
              \/ /\ f.calls <= MAX_RETRIES
                 /\ flights' = (flights \ {f}) \cup
                        {[f EXCEPT !.pc = "wait", !.retryCount = f.calls - 1,
                                   !.waits = Append(@, RETRY_DELAY * 2 ^ (f.calls - 1))]}
                 /\ processing' /\ dropped' = dropped
              \/ /\ f.calls = MAX_RETRIES + 1
                 /\ flights' = flights \ {f}
                 /\ dropped' = dropped \cup Range(f.batch)
                 /\ ~processing']_vars

\* A retry write was answered with a wrong receipt count and the batch is in the
\* next backoff wait
C8_Witness ==
    /\ lastAck = "mismatch"
    /\ \E f \in flights : f.pc = "wait" /\ f.calls >= 2 /\ Range(f.batch) \cap written = {}

\* C9: a signal that finds k pending items, 1 <= k <= BATCH_SIZE, and no flush in
\* flight starts exactly one flush, whose batch is exactly those k items; the
\* handler waits for it, and when no other signal is delivered the process does
\* not exit before that batch is written or dropped.
C9_ShutdownDrains ==
    /\ [][(SigintStep /\ ~processing /\ Len(queue) \in 1 .. BATCH_SIZE) =>
            /\ StartsOneFlush(queue)
            /\ \E f \in flights' \ flights : f.sig
            /\ queue' = << >>
            /\ sigEnding' = sigEnding]_vars
    /\ []((sigCount >= 1 /\ ~sigBusy /\ Len(sigSnap) \in 1 .. BATCH_SIZE) =>
            /\ \A i \in Range(sigSnap) : taken[i] = 1
            /\ \/ \E f \in flights : f.batch = sigSnap /\ f.sig
               \/ Range(sigSnap) \subseteq written \cup dropped
            /\ (exited /\ sigCount = 1) => Range(sigSnap) \subseteq written \cup dropped)

\* The process has exited after its only signal, which found a full batch of
\* items pending and no flush in flight
C9_Witness ==
    /\ exited
    /\ sigCount = 1
    /\ ~sigBusy
    /\ Len(sigSnap) = BATCH_SIZE
    /\ Range(sigSnap) \subseteq written

\* C10: when the process has exited, every item that was pending when the
\* signal arrived has been in a ledger write call.
C10_AllPendingFlushed ==
    exited => \A i \in Range(sigSnap) : writes[i] >= 1

\* C11: the process never exits while a batch is outstanding at the sink: a
\* signal that arrives while a flush is in flight lets the write call and its
\* retry chain finish before process.exit() runs.
C11_NoExitWhileOutstanding ==
    exited => flights = {}

C13_AddNeverWaits ==
    \A f \in flights : f.adder = 0

\* The notifications the handler makes into an item
WellFormed ==
    { m \in Channels \X Payloads :
        ~ParseThrows(m[2]) /\ Classify(m[1], m[2]) \in {"pageview", "event", "session"} }

\* C14: a notification whose payload fails to decode is logged and changes
\* nothing of the queue (pending items, in-flight flag, timers, outstanding
\* batch, write calls) and does not end the process; and after any number of
\* such notifications every well-formed notification, on either channel, is
\* still classified and its item appended to the pending queue.
C14_MalformedIsolated ==
    /\ [][errorsLogged' # errorsLogged =>
            /\ errorsLogged' = errorsLogged + 1
            /\ lastNote' = "error"
            /\ UNCHANGED << queue, processing, batchTimer, followUps, flights, added,
                            taken, writes, written, dropped, exited >>]_vars
    /\ [](~exited)
    /\ [](errorsLogged < MaxBadNotes =>
            \A ch \in Channels :
                ENABLED (/\ Notification(ch, "garbage")
                         /\ errorsLogged' = errorsLogged + 1
                         /\ UNCHANGED << queue, processing, batchTimer, followUps,
                                         flights, added, exited >>))
    /\ []((errorsLogged > 0 /\ added < MaxItems) =>
            \A m \in WellFormed :
                ENABLED (/\ Notification(m[1], m[2])
                         /\ lastNote' = Classify(m[1], m[2])
                         /\ added' = added + 1
                         /\ added' \in Range(queue') \cup InFlight'))

\* A pageview notification that followed a malformed one was enqueued, and its
\* item has been written
C14_Witness ==
    /\ errorsLogged >= 1
    /\ lastNote = "pageview"
    /\ added \in written

\* C15: a failed write call, a wrong receipt count and a dropped batch stay
\* inside the queue: the step in which a write call fails logs no handler error
\* and does not end the process; the in-flight flag is never left set without an
\* outstanding batch; after a failure every well-formed notification is still
\* enqueued; and every item pending after a failure is eventually in a write
\* call.
C15_WriteErrorsContained ==
    /\ [][failures' # failures =>
            UNCHANGED << errorsLogged, lastNote, exited, queue, added >>]_vars
    /\ [](~exited)
    /\ [](flights = {} => ~processing)
    /\ []((failures > 0 /\ added < MaxItems) =>
            \A m \in WellFormed :
                ENABLED (/\ Notification(m[1], m[2])
                         /\ added' = added + 1
                         /\ added' \in Range(queue') \cup InFlight'
                         /\ errorsLogged' = errorsLogged))
    /\ \A i \in Items :
         (failures > 0 /\ i \in Range(queue)) ~> (writes[i] >= 1)

\* A batch was dropped, and an item enqueued later has been written
C15_Witness ==
    /\ dropped # {}
    /\ \E i \in written : \A d \in dropped : d < i
    /\ ~processing
    /\ errorsLogged = 0
    /\ ~exited

\* A flush is scheduled: the batch timer is set or a follow-up timer is pending
FlushTimerSet == batchTimer.set \/ followUps # << >>

\* C16: in every reachable state a flush timer is set if and only if the
\* pending queue is non-empty and no flush is in flight.
C16_TimerIffPending ==
    FlushTimerSet <=> (queue # << >> /\ ~processing)

\* The scheduled flush callbacks that have not run yet
ScheduledFlushes == (IF batchTimer.live THEN 1 ELSE 0) + Len(followUps)

\* C17: at most one flush callback is scheduled at any time, counting the batch
\* timer and the follow-up timers.
C17_OneScheduledFlush ==
    ScheduledFlushes <= 1

\* this.queue as the processBatch() call of the step finds it: add() has pushed
\* its item before it calls processBatch()
QueueAtCall == IF AddStep THEN Append(queue, added') ELSE queue

\* The step starts a flush: a processBatch() activation reaches its first write
\* call
FlushStartStep == \E f \in flights' \ flights : f.pc = "first"

\* C18: a step that starts a flush takes exactly min(len(pending), BATCH_SIZE)
\* items, at least one, from the front of the pending queue: the batch is that
\* prefix in enqueue order, and the pending queue of the next state is the rest
\* in the same order.  Nothing else is removed from the pending queue.
C18_FifoFlush ==
    /\ [][FlushStartStep =>
            LET q0 == QueueAtCall
                m == IF Len(q0) < BATCH_SIZE THEN Len(q0) ELSE BATCH_SIZE
            IN  /\ m >= 1
                /\ \A f \in flights' \ flights :
                     /\ Len(f.batch) = m
                     /\ \A k \in 1 .. m : f.batch[k] = q0[k]
                     /\ \A a, b \in 1 .. m : a < b => f.batch[a] < f.batch[b]
                /\ Len(queue') = Len(q0) - m
                /\ \A k \in 1 .. Len(queue') : queue'[k] = q0[m + k]]_vars
    /\ [][~FlushStartStep => queue' = QueueAtCall]_vars

\* A flush took BATCH_SIZE items off a longer pending queue: the next item in
\* enqueue order is at the front of what is left
C18_Witness ==
    /\ queue # << >>
    /\ \E f \in flights :
         /\ f.pc = "first"
         /\ Len(f.batch) = BATCH_SIZE
         /\ queue[1] = f.batch[BATCH_SIZE] + 1

\* The step is the expiry of a follow-up timer
FollowUpStep == followUps # << >> /\ followUps' = Tail(followUps)

\* The step calls processBatch(): a timer callback, the SIGINT handler with
\* items pending, or an add() that reaches the size threshold
CallsProcessBatch ==
    \/ FollowUpStep
    \/ BatchTimerStep
    \/ SigintStep /\ Len(queue) > 0
    \/ AddStep /\ Len(QueueAtCall) >= BATCH_SIZE

\* C19: a processBatch() call made while a flush is in flight or while nothing
\* is pending does nothing: the pending queue stays as the call found it, the
\* in-flight flag, the batch timer field and the outstanding batch are
\* unchanged, and no write call is made.
C19_NoOpFlush ==
    [][(CallsProcessBatch /\ (processing \/ Len(QueueAtCall) = 0)) =>
         /\ queue' = QueueAtCall
         /\ processing' = processing
         /\ batchTimer'.set = batchTimer.set
         /\ batchTimer'.delay = batchTimer.delay
         /\ flights' = flights
         /\ UNCHANGED << taken, writes, written, dropped >>]_vars

\* The SIGINT handler found items pending and a flush in flight: its
\* processBatch() call returned at once and it is waiting for umami.end(), with
\* those items still pending and the batch still outstanding
C19_Witness ==
    /\ sigCount = 1
    /\ sigBusy
    /\ sigSnap # << >>
    /\ sigEnding = 1
    /\ ~exited
    /\ Range(sigSnap) \subseteq Range(queue)
    /\ flights # {}
    /\ \A f \in flights : ~f.sig

\* C20: the step in which a flush ends, by an acknowledged write or by the drop
\* after the last retry, clears the in-flight flag and starts no flush: no item
\* is taken, no write call is made, and the pending queue and the batch timer
\* are unchanged.  If items are pending, that step sets one follow-up timer of
\* 100 ms; if none is pending, it sets no timer.
C20_FlushCompletion ==
    [][(\E f \in flights : flights' = flights \ {f}) =>
         /\ ~processing'
         /\ flights' \subseteq flights
         /\ UNCHANGED << queue, batchTimer, taken, writes >>
         /\ \E f \in flights \ flights' :
              \/ written' = written \cup Range(f.batch) /\ dropped' = dropped
              \/ dropped' = dropped \cup Range(f.batch) /\ written' = written
         /\ IF queue # << >>
            THEN followUps' = Append(followUps, 100)
            ELSE followUps' = followUps]_vars

\* A batch was dropped while items were pending: no flush is in flight, the
\* flag is cleared and a 100 ms follow-up timer is the only scheduled flush
C20_Witness ==
    /\ dropped # {}
    /\ lastAck \in {"error", "mismatch"}
    /\ flights = {}
    /\ ~processing
    /\ queue # << >>
    /\ followUps = << 100 >>
    /\ ~batchTimer.set

----------------------------------------------------------------------------
\* Annotations of an entity

\* The entity has an annotation with key k
HasAttr(k) == Attr(entity.attributes, k) # Undefined

\* The annotation with key k is present and is v
AttrIs(k, v) == HasAttr(k) /\ Attr(entity.attributes, k) = v

\* The values the item's metadata gives for key k that are neither null nor
\* undefined, in the order of the metadata
MetadataValues(k) ==
    SelectSeq(item.metadata, LAMBDA e : e[1] = Str(k) /\ ~IsNullish(e[2]))

\* The annotation value made from value v: a number as it is, else its text
AnnotationValue(v) == IF v.t = "num" THEN v ELSE String(v)

\* The annotation with key k is made from the value v of the item: the last
\* metadata value for k when the metadata has one, else v (numbers as numbers,
\* other values as text), and no annotation when v is null or undefined
AttrFrom(k, v) ==
    LET md == MetadataValues(k)
    IN  IF md # << >> THEN AttrIs(k, AnnotationValue(md[Len(md)][2]))
        ELSE IF IsNullish(v) THEN ~HasAttr(k)
        ELSE AttrIs(k, AnnotationValue(v))

\* A text is in the form toISOString() produces
IsCanonicalIso(x) == x \in {ISO_MILLIS, NowIso}

----------------------------------------------------------------------------
\* Write calls

\* The write call of flight f has been made and has not returned
Calling(f) == f.pc \in {"first", "retry"}

\* The entities of the latest write call of flight f, and of its first one
CallOf(f) == creates(f.arg)
FirstCallOf(f) == creates(f.firstArg)

\* The write attempts flight f has made: the first one and the retries
Attempts(f) ==
    IF f.pc = "first" THEN 1
    ELSE IF f.pc = "retry" THEN f.retryCount + 2
    ELSE f.retryCount + 1

\* C22: every write attempt of a batch makes one write call, so the calls of a
\* flush and the calls that carried each of its items number its attempts; the
\* call carries one entity per item of the batch, in batch order, and the
\* batch_size annotation of each entity is the number of entities in the call.
C22_OneCallPerAttempt ==
    \A f \in flights :
        /\ f.calls = Attempts(f)
        /\ \A i \in Range(f.batch) : writes[i] = Attempts(f)
        /\ Calling(f) =>
              \A c \in {CallOf(f)} :
                  /\ Len(c) = Len(f.batch)
                  /\ \A j \in 1 .. Len(c) :
                        /\ c[j].payload = ItemOf(f.batch[j]).data
                        /\ Attr(c[j].attributes, "umami_id") = Num(f.batch[j])
                        /\ Attr(c[j].attributes, "batch_size") = Num(Len(c))

\* A retry's write call of a batch shorter than BATCH_SIZE is outstanding
C22_Witness ==
    \E f \in flights :
        /\ f.pc = "retry"
        /\ Len(f.batch) = 2
        /\ Attr(CallOf(f)[2].attributes, "batch_size") = Num(2)

\* C23: every entity of every write call, of a first attempt or of a retry,
\* expires after 30 days; counted in blocks of 2 seconds, as calculateBTL of
\* the block-based variant counts, that is 1,296,000 blocks, 30 times the
\* 43,200 blocks of a day.
C23_ThirtyDayExpiry ==
    \A f \in flights :
        \A c \in {CallOf(f)} :
            \A j \in 1 .. Len(c) :
                /\ c[j].expiresIn = [days |-> 30]
                /\ c[j].btl = 1296000
                /\ c[j].btl = 30 * 43200

\* The write call of a second retry is outstanding
C23_Witness ==
    \E f \in flights :
        /\ f.pc = "retry"
        /\ f.retryCount = 1
        /\ CallOf(f)[1].expiresIn.days = 30
        /\ CallOf(f)[1].btl = 1296000

----------------------------------------------------------------------------
\* Startup

\* main() is in setupDatabaseListeners or past it
Subscribing == startPc \in {"listenConnect", "listen1", "listen2", "running"}

\* An awaited call of main() throws
StartupFails ==
    \/ InitGolem(FALSE)
    \/ ProvisionConnect("main", FALSE)
    \/ \E k \in 1 .. Len(Queries) : ProvisionQuery("main", k, FALSE)
    \/ ListenConnect(FALSE)
    \/ Listen(FALSE)

\* No notification has been handled
NothingProcessed ==
    /\ added = 0
    /\ lastNote = "none"
    /\ errorsLogged = 0
    /\ queue = << >>
    /\ flights = {}

\* C24: the listener connects and subscribes only after setupDatabaseTriggers
\* has run all its queries and released its client; when initGolem,
\* setupDatabaseTriggers or setupDatabaseListeners throws, the process exits with
\* status 1, and from then on no handler is registered and no notification is
\* processed; no notification is processed before the handler is registered.
C24_StartupOrdered ==
    /\ [](Subscribing => dbObjects = Provisioned /\ clientsOut = 0 /\ runs = 1)
    /\ [][StartupFails => startPc' = "failed" /\ exitCode' = 1]_vars
    /\ [](startPc = "failed" =>
              /\ exitCode = 1
              /\ NothingProcessed
              /\ ~ENABLED StartupNext)
    /\ [](~HandlerRegistered => NothingProcessed /\ ~ENABLED Notify)

\* The subscription failed after the triggers were installed
C24_Witness ==
    /\ startPc = "failed"
    /\ exitCode = 1
    /\ dbObjects = Provisioned
    /\ clientsOut = 0
    /\ NothingProcessed

\* A call of setupDatabaseTriggers has returned or thrown
ProvisionEnded == startPc \in {"returned", "threw"}

\* C25: whatever the four database objects were before and however many times
\* setupDatabaseTriggers has run, when a run returns each watched table has its
\* one notify function and its one insert trigger as the function defines
\* them, which is the state after a single run; a later run never takes that
\* state away; and when a run has returned or thrown, the client it acquired
\* has been released.
C25_ProvisioningIdempotent ==
    /\ [](startPc = "returned" => dbObjects = Provisioned)
    /\ [][dbObjects = Provisioned => dbObjects' = Provisioned]_vars
    /\ [](ProvisionEnded => clientsOut = 0)
    /\ [](clientsOut \in {0, 1})

\* A second run has returned
C25_Witness ==
    /\ startPc = "returned"
    /\ runs >= 2
    /\ dbObjects = Provisioned
    /\ clientsOut = 0

----------------------------------------------------------------------------
\* The normalizer

\* The handler's switch has a branch for the notification
Classified ==
    /\ note # NoNote
    /\ Classify(note.channel, RowKind(note.row)) \in {"pageview", "event", "session"}

\* C26: every item the normalizer passes to add(), whatever fields the decoded
\* payload lacks, has a type, a website_id and a timestamp that are neither
\* null nor undefined; and a payload without event_id and session_id is made
\* into an item all the same.
C26_ItemFieldsPresent ==
    /\ (note # NoNote /\ item # NoItem) =>
           /\ ~IsNullish(item.type)
           /\ ~IsNullish(item.website_id)
           /\ ~IsNullish(item.timestamp)
    /\ (Classified /\ item = NoItem) => ENABLED Normalize

----------------------------------------------------------------------------
\* Classification

\* The payloads that decode to an object, a row
RowPayloads == {"type1", "type2", "type3"}

\* The kind the item of a notification is to have, "none" when the notification
\* is to be passed over
KindFor(ch, p) ==
    CASE ch = "website_event_insert" /\ p = "type1" -> "pageview"
      [] ch = "website_event_insert" /\ p = "type2" -> "event"
      [] ch = "session_insert" -> "session"
      [] OTHER -> "none"

\* What a handler run for a row on channel ch is to do
ClassifiedAs(ch, p) ==
    /\ errorsLogged' = errorsLogged
    /\ ~exited'
    /\ IF KindFor(ch, p) = "none"
       THEN /\ lastNote' = "ignored"
            /\ UNCHANGED << queue, added, flights, taken, writes, batchTimer,
                            processing >>
       ELSE /\ lastNote' = KindFor(ch, p)
            /\ added' = added + 1
            /\ taken'[added'] + Len(SelectSeq(queue', LAMBDA i : i = added')) = 1
            /\ \A i \in Range(queue') : i \in Range(queue) \/ i = added'

\* C27: a handler run for a notification whose payload decodes to a row calls
\* add() once, for an item of kind pageview (website_event_insert, event_type
\* 1), event (website_event_insert, event_type 2) or session
\* (session_insert), and logs no error; for another event_type on
\* website_event_insert and for any other channel it enqueues nothing, starts
\* nothing and logs no error.  A handler run has one outcome, so it is enough
\* that the run with this outcome is possible; runs that enqueue are possible
\* while add() calls remain in the model.
C27_Classification ==
    \A ch \in MsgChannels : \A p \in RowPayloads :
        (KindFor(ch, p) = "none" \/ added < MaxItems) =>
            ENABLED (Notification(ch, p) /\ ClassifiedAs(ch, p))

\* A notification was passed over after two were enqueued and none had failed
C27_Witness ==
    /\ lastNote = "ignored"
    /\ added = 2
    /\ errorsLogged = 0

----------------------------------------------------------------------------
\* Retries

\* The items whose entities a write call carries, in the order of the call
CallItems(c) == [j \in 1 .. Len(c) |-> Attr(c[j].attributes, "umami_id").n]

\* The batch_size annotations of the entities of a write call
CallSizes(c) == [j \in 1 .. Len(c) |-> Attr(c[j].attributes, "batch_size").n]

\* The payloads of the entities of a write call
CallPayloads(c) == [j \in 1 .. Len(c) |-> c[j].payload]

\* C28: the write call of every retry carries entities for the items of the
\* first attempt's call, in the same order, with the same payloads and the
\* same batch_size; no item that is pending, so none enqueued during the retry
\* chain, is among them, and none of the batch is missing.
C28_RetryResubmitsBatch ==
    \A f \in flights :
        f.pc = "retry" =>
            \A c \in {CallOf(f)} : \A c1 \in {FirstCallOf(f)} :
                /\ CallItems(c) = CallItems(c1)
                /\ CallPayloads(c) = CallPayloads(c1)
                /\ CallSizes(c) = CallSizes(c1)
                /\ CallItems(c) = f.batch
                /\ Range(CallItems(c)) \cap Range(queue) = {}

\* The third retry of a batch is outstanding while two later items are pending
C28_Witness ==
    \E f \in flights :
        /\ f.pc = "retry"
        /\ f.retryCount = 2
        /\ Len(f.batch) >= 2
        /\ Len(queue) = 2
        /\ CallItems(CallOf(f)) = f.batch

----------------------------------------------------------------------------
\* Batch size

\* C29: every batch handed to the sink, by an add() that reached the size
\* threshold, by the batch timer, by a follow-up timer or by the SIGINT
\* handler, has between 1 and BATCH_SIZE items, and so has every write call
\* made for it, which carries one entity per item of the batch it is given.
C29_BatchSizeBound ==
    \A f \in flights :
        /\ Len(f.batch) \in 1 .. BATCH_SIZE
        /\ Len(f.firstArg) \in 1 .. BATCH_SIZE
        /\ Len(f.arg) \in 1 .. BATCH_SIZE

\* The SIGINT handler's flush took a full batch and left an item pending
C29_Witness ==
    \E f \in flights :
        /\ f.sig
        /\ Calling(f)
        /\ Len(f.batch) = BATCH_SIZE
        /\ Len(queue) >= 1

----------------------------------------------------------------------------
\* Arrival order

\* A sequence of items in the order of the notifications that brought them
InArrivalOrder(q) == \A j, k \in 1 .. Len(q) : j < k => q[j] < q[k]

\* A notification that is made into an item
Enqueues(ch, p) == p \in RowPayloads /\ KindFor(ch, p) # "none"

\* C30: the handler appends the item of a notification in the callback in
\* which the notification arrives, so the pending items are in arrival order,
\* every item taken into a batch arrived before every pending item, and the
\* next notification is made into the next item at once, also while the
\* handler of an earlier notification is suspended in the flush its add()
\* started.
\* The order holds across channels, hence per channel.
C30_ArrivalOrder ==
    /\ InArrivalOrder(queue)
    /\ \A f \in flights :
          /\ InArrivalOrder(f.batch)
          /\ \A i \in Range(f.batch) : \A k \in Range(queue) : i < k
    /\ added < MaxItems =>
          \A ch \in Channels : \A p \in RowPayloads :
              Enqueues(ch, p) =>
                  ENABLED (Notification(ch, p) /\ added' = added + 1)

\* The handler of an earlier notification is suspended in the flush its add()
\* started, and the items of two later notifications are pending
C30_Witness ==
    \E f \in flights :
        /\ f.adder # 0
        /\ Calling(f)
        /\ Len(queue) = 2
        /\ \A k \in Range(queue) : f.adder < k
        /\ lastNote \in {"pageview", "event", "session"}

----------------------------------------------------------------------------
\* toAttributes on its own

\* The entries with key k that toAttributes does not skip, in list order
LiveEntries(k) ==
    SelectSeq(entryList, LAMBDA e : e[1] = k /\ ~IsNullish(e[1]) /\ ~IsNullish(e[2]))

\* The annotations with key k
WithKey(k) == { j \in 1 .. Len(attributes) : attributes[j].key = k }

\* C31: toAttributes returns at most one annotation per key; a key has an
\* annotation exactly when some entry with that key has neither a null or
\* undefined key nor a null or undefined value, and the annotation carries the
\* value of the last such entry, a number as a number and any other value as
\* its text; no annotation has a null or undefined key or value.
C31_LastWriteWins ==
    attributes # NoAttributes =>
        /\ \A j, k \in 1 .. Len(attributes) :
               attributes[j].key = attributes[k].key => j = k
        /\ \A j \in 1 .. Len(attributes) :
               /\ ~IsNullish(attributes[j].key)
               /\ attributes[j].value.t \in {"num", "str"}
               /\ LiveEntries(attributes[j].key) # << >>
        /\ \A k \in EntryKeys :
               LET live == LiveEntries(k)
               IN  IF live = << >> THEN WithKey(k) = {}
                   ELSE /\ Cardinality(WithKey(k)) = 1
                        /\ \A j \in WithKey(k) :
                               /\ attributes[j].value = AnnotationValue(live[Len(live)][2])
                               /\ live[Len(live)][2].t = "num" =>
                                      attributes[j].value = live[Len(live)][2]

\* After a text and the number 0 for the key "type", a null value for it and
\* an entry without key: the one annotation is the number 0
C31_Witness ==
    /\ Len(entryList) = 3
    /\ entryList[1] = << Str("type"), Str("pageview") >>
    /\ entryList[2] = << Str("type"), Num(0) >>
    /\ entryList[3] = << Str("type"), Null >>
    /\ attributes = << [key |-> Str("type"), value |-> Num(0)] >>

----------------------------------------------------------------------------
\* Minimum annotations

\* The annotations every entity is to have
MinimumKeys == {"type", "source", "timestamp", "sync_time"}

\* C32: every entity built for an item, whatever identity or optional fields
\* the item lacks and whatever keys its metadata has, has an annotation with
\* each of the keys type, source, timestamp and sync_time.
C32_MinimumAnnotations ==
    entity # NoEntity => \A k \in MinimumKeys : HasAttr(k)

\* The entity of a session item made from a row without website_id, without
\* session_id and without created_at has been built: it has the four
\* annotations and neither website_id nor umami_id
C32_Witness ==
    /\ entity # NoEntity
    /\ item.type = Str("session")
    /\ IsNullish(item.website_id)
    /\ IsNullish(item.umami_id)
    /\ note # NoNote
    /\ IsNullish(note.row.created_at)
    /\ \A k \in MinimumKeys : HasAttr(k)
    /\ ~HasAttr("website_id")
    /\ ~HasAttr("umami_id")

----------------------------------------------------------------------------
\* The report of a dropped batch

\* The drop lines among the console.error lines of a write call's return
DropLines(log) == { j \in 1 .. Len(log) : log[j].retries = MAX_RETRIES }

\* A batch is dropped in this step
DropStep == dropped' # dropped

----------------------------------------------------------------------------
\* Conservation of items

\* The places item i is in: pending, in the outstanding batch, written, dropped
PlacesOf(i) ==
    (IF i \in Range(queue) THEN {"pending"} ELSE {})
        \cup (IF i \in InFlight THEN {"outstanding"} ELSE {})
        \cup (IF i \in written THEN {"written"} ELSE {})
        \cup (IF i \in dropped THEN {"dropped"} ELSE {})

\* C34: before the process exits, every item passed to add() is in exactly one
\* of the pending queue, the one outstanding batch, the items of the batches
\* written with success and the items of the dropped batches; it is there once,
\* and nothing else is in any of these places.
C34_Conservation ==
    ~exited =>
        /\ \A i \in 1 .. added : Cardinality(PlacesOf(i)) = 1
        /\ \A i \in Items \ (1 .. added) : PlacesOf(i) = {}
        /\ Cardinality(Range(queue)) = Len(queue)
        /\ Cardinality(flights) <= 1
        /\ \A f \in flights : Cardinality(Range(f.batch)) = Len(f.batch)

\* Five items were passed to add(): one is pending, one is in the outstanding
\* batch, one was written and two were dropped
C34_Witness ==
    /\ ~exited
    /\ added = 5
    /\ Len(queue) = 1
    /\ Cardinality(InFlight) = 1
    /\ Cardinality(written) = 1
    /\ Cardinality(dropped) = 2

----------------------------------------------------------------------------
\* Progress

\* A callback that starts a flush is scheduled: the batch timer or a follow-up
FlushScheduled == batchTimer.live \/ followUps # << >>

\* C35: without a termination signal, when every write call returns and every
\* timer that is set expires, every item passed to add() is eventually in a
\* batch written with success or in a dropped batch; and in no state is an item
\* pending while no flush is in flight and no callback that starts one is
\* scheduled.
C35_Progress ==
    /\ \A i \in Items : (added >= i) ~> (i \in written \cup dropped)
    /\ [](queue # << >> => (flights # {} \/ FlushScheduled))

\* Every item was passed to add() and has ended written or dropped, items of
\* both kinds among them
C35_Witness ==
    /\ added = MaxItems
    /\ written \cup dropped = Items
    /\ written # {}
    /\ dropped # {}
    /\ sigCount = 0

----------------------------------------------------------------------------
\* Write order

\* Item i has been carried by a write call
Attempted(i) == writes[i] > 0

\* The batch of item i has succeeded or has been dropped
Settled(i) == i \in written \cup dropped

\* C36: items are numbered in the order of their add() calls.  When an item
\* has been carried by a write call, so has every item enqueued before it; the
\* items enqueued before an item of the outstanding batch are in that batch or
\* their batch has succeeded or been dropped, so the batch of a later item has
\* no write attempt, first or retry, while an earlier batch is in its retry
\* chain; the items carried by a write call are those of the outstanding batch
\* and of the batches that succeeded or were dropped, no pending item has
\* been carried by one, and a batch holds its items in the order of their
\* add() calls.
C36_WriteOrder ==
    /\ \A b \in 2 .. added : Attempted(b) => Attempted(b - 1)
    /\ \A f \in flights : \A a \in 1 .. f.batch[Len(f.batch)] :
           a \in Range(f.batch) \/ Settled(a)
    /\ \A i \in 1 .. added :
           Attempted(i) <=> (Settled(i) \/ \E f \in flights : i \in Range(f.batch))
    /\ \A i \in Range(queue) : ~Attempted(i)
    /\ \A f \in flights : InArrivalOrder(f.batch)

\* The first batch is in its third retry while two later items are pending
\* and have not been carried by any write call
C36_Witness ==
    /\ \E f \in flights : f.pc = "retry" /\ f.retryCount = 2 /\ 1 \in Range(f.batch)
    /\ Len(queue) = 2
    /\ \A i \in Range(queue) : ~Attempted(i)
    /\ written = {}
    /\ dropped = {}

----------------------------------------------------------------------------
\* The batch timer and the flush in flight

\* C37: while a flush is in flight, this.processing is true, the batch timer
\* field is null and no batch timer is pending; so a step that sets
\* `processing` leaves the field null, and an add() during a flush sets no
\* timer.
C37_NoTimerWhileProcessing ==
    /\ processing => batchTimer = NoTimer
    /\ flights # {} => processing
    /\ batchTimer.live => batchTimer.set

\* Two items were added during a flush: they are pending and no timer is set
C37_Witness ==
    /\ processing
    /\ flights # {}
    /\ Len(queue) = 2
    /\ batchTimer = NoTimer
    /\ followUps = << >>

----------------------------------------------------------------------------
\* The batch timer and later enqueues

\* The oldest pending item is in the batch of a flush that starts in this step
OldestFlushed ==
    /\ queue' # << >> => Head(queue') # Head(QueueAtCall)
    /\ \E f \in flights' \ flights : f.pc = "first" /\ f.batch[1] = Head(QueueAtCall)

\* C38: the batch timer is a timeout of BATCH_TIMEOUT that is pending as long
\* as the field holds it.  An add() that finds it set leaves the same timeout
\* in place, or, when the size threshold is reached, clears it and starts the
\* flush of the oldest pending item.  While it is set no flush is in flight and
\* the item whose add() set it is pending; that item is the oldest pending one
\* unless a 100 ms follow-up timer is pending, and a follow-up timer or batch
\* timer that expires while items are pending and no flush is in flight starts
\* the flush of the oldest pending item and clears the batch timer.
C38_TimerNotPostponed ==
    /\ [](batchTimer.set =>
            /\ batchTimer.live
            /\ batchTimer.delay = BATCH_TIMEOUT
            /\ ~processing
            /\ batchTimer.by \in Range(queue)
            /\ followUps = << >> => batchTimer.by = Head(queue))
    /\ [][(AddStep /\ batchTimer.set) =>
             \/ batchTimer' = batchTimer
             \/ /\ batchTimer' = NoTimer
                /\ Len(queue) + 1 >= BATCH_SIZE
                /\ OldestFlushed]_vars
    /\ [][(AddStep /\ ~batchTimer.set /\ batchTimer'.set) =>
             /\ batchTimer'.by = added'
             /\ queue = << >> \/ followUps # << >>]_vars
    /\ [][((FollowUpStep \/ BatchTimerStep) /\ ~AddStep /\ ~processing
                /\ queue # << >>) =>
             /\ batchTimer' = NoTimer
             /\ OldestFlushed]_vars

\* The timer set by the first add() is still the batch timer after a second
\* add(): two items are pending and no flush has started
C38_Witness ==
    /\ added = 2
    /\ queue = << 1, 2 >>
    /\ batchTimer.set
    /\ batchTimer.by = 1
    /\ flights = {}
    /\ written = {}

----------------------------------------------------------------------------
\* Failed batches and the pending queue

\* The sequence q without its first k elements
Without(q, k) == SubSeq(q, k + 1, Len(q))

====
